---------------------------- MODULE Spec2Model ----------------------------
(***************************************************************************)
(* Model of src/repo_data.py: the GitHub ETL script.                       *)
(*                                                                         *)
(*   get_rate_limit  one GET to /rate_limit, returns the remaining quota   *)
(*   extract         pre-check, first page, pagination loop, post-check    *)
(*   transform_load  CREATE TABLE IF NOT EXISTS, then per record:          *)
(*                   map -> INSERT OR IGNORE -> commit                     *)
(*   main            the four endpoints in order, then conn.close()        *)
(*                                                                         *)
(* The GitHub server and the sqlite store are the environment: a response  *)
(* is drawn at each request, a store failure at each store call.           *)
(***************************************************************************)
EXTENDS Integers, Sequences, FiniteSets, TLC

VARIABLES
    status,     \* "running" | "closed" (main returned) | "exited" (sys.exit) | "raised"
    pc,         \* position of the single thread of control
    ep,         \* index into Endpoints of the endpoint main is working on
    remaining,  \* server side: requests left in the rate-limit window, as of the
                \* last exchange of the running extract call (0 outside a call)
    res,        \* extract: the last response `res` (kind of body, 'next' link)
    json_data,  \* extract: accumulated body; after return, extract's result
    sent,       \* observation: the pages the server delivered in this call, in order
    failure,    \* observation: what failed last ("no" if nothing): a data fetch
                \* ("neterr", "badjson", "dict"), a rate-limit query ("query"),
                \* the mapping of an item ("mapping"), a store call ("store")
    dataReqs,   \* observation: data requests issued by this extract call
    rlReqs,     \* observation: rate-limit queries issued by this extract call
    text,       \* main: the string json.dumps produced (contributors, commits, ...)
    k,          \* transform_load: index of the loop's current item
    data_dict,  \* transform_load: the mapped row of the current item
    columns,    \* transform_load: column list, None until the first mapped record
    nCommits,   \* observation: conn.commit() calls completed in this load
    startTab,   \* observation: the endpoint's durable table when the load began
    work,       \* store as seen through the connection (uncommitted rows included)
    durable,    \* store as committed in the database file
    created,    \* tables that exist in the database file
    caller      \* who calls transform_load: main, or the repeated-load driver
                \* with the arguments of its call

vars == <<status, pc, ep, remaining, res, json_data, sent, failure,
          dataReqs, rlReqs, text, k, data_dict, columns, nCommits,
          startTab, work, durable, created, caller>>

---------------------------------------------------------------------------
(* Bounds of the model *)

MaxLoads == 2       \* transform_load calls on one database file (repeated loads)
MaxPages == 2       \* pages the server serves for one extraction
MaxRecords == 2     \* records the server serves for one extraction, all pages
MaxQuota == 2       \* requests in a rate-limit window (RATE_LIMIT scaled down)

---------------------------------------------------------------------------
(* Values *)

None == "None"                   \* Python None / JSON null in a scalar position
NoneObj == [none |-> TRUE]       \* JSON null where an object is expected

Endpoints == <<"contributors", "commits", "issues", "pulls">>
EndpointSet == {Endpoints[i] : i \in 1..Len(Endpoints)}

RECURSIVE Join(_)
\* ','.join(list) on a list of strings: "" for the empty list
Join(s) ==
    IF s = <<>> THEN ""
    ELSE IF Len(s) = 1 THEN s[1]
    ELSE s[1] \o "," \o Join(Tail(s))

RECURSIVE Flatten(_)
\* the records of a sequence of pages, page after page
Flatten(ps) == IF ps = <<>> THEN <<>> ELSE Head(ps).body \o Flatten(Tail(ps))

---------------------------------------------------------------------------
(* Raw records the server may serve, per endpoint.  Each universe holds    *)
(* a well-formed record, a record with the same primary-key value and      *)
(* other fields changed, and a record that lacks a key the mapping reads.  *)

Without(r, f) == [x \in DOMAIN r \ {f} |-> r[x]]

Contributor(id, node, login, n) ==
    [id |-> id, node_id |-> node, login |-> login, contributions |-> n]

ContributorItems ==
    { Contributor(1, "n1", "u1", 1),
      Contributor(1, "n1", "u2", 2),        \* same id, other login and count
      Contributor(2, "n2", "u2", 1),
      Contributor(2, "n2", None, 1),        \* login null
      Without(Contributor(2, "n2", "u2", 1), "contributions") }

GitCommit ==
    [tree |-> [sha |-> "t1"], author |-> [date |-> "d1"],
     committer |-> [date |-> "d1"], message |-> "msg", comment_count |-> 0]

Commit(sha, node, parents, author, committer) ==
    [sha |-> sha, node_id |-> node, commit |-> GitCommit, parents |-> parents,
     author |-> author, committer |-> committer]

CommitItems ==
    { Commit("a", "n1", <<>>, [login |-> "u1"], [login |-> "u1"]),
      Commit("a", "n2", <<>>, NoneObj, [login |-> "u1"]),   \* same sha, other node_id
      Commit("b", "n3", <<[sha |-> "a"], [sha |-> "p"]>>, NoneObj, NoneObj),
      Without(Commit("b", "n3", <<[sha |-> "a"]>>, NoneObj, NoneObj), "author") }

Issue(id, node, number, state, assignees, labels, closed) ==
    [id |-> id, node_id |-> node, number |-> number, state |-> state,
     title |-> "t", body |-> None, assignees |-> assignees, labels |-> labels,
     comments |-> 0, user |-> [login |-> "u1"], created_at |-> "d1",
     updated_at |-> "d1", closed_at |-> closed]

IssueItems ==
    { Issue(1, "n1", 1, "open", <<>>, <<>>, None),
      Issue(1, "n1", 7, "closed", <<[login |-> "u1"], [login |-> "u2"]>>,
            <<[name |-> "bug"]>>, "d2"),                   \* same id, other number
      Without(Issue(2, "n2", 2, "open", <<>>, <<>>, None), "user") }

Pull(id, node, number, state, reviewers, merged) ==
    [id |-> id, node_id |-> node, number |-> number, state |-> state,
     title |-> "t", body |-> None, assignees |-> <<>>,
     requested_reviewers |-> reviewers, labels |-> <<>>,
     user |-> [login |-> "u1"], created_at |-> "d1", updated_at |-> "d1",
     closed_at |-> merged, merged_at |-> merged, merge_commit_sha |-> merged,
     head |-> [sha |-> "h"], base |-> [sha |-> "b"]]

PullItems ==
    { Pull(1, "n1", 1, "open", <<[login |-> "u2"]>>, None),
      Pull(1, "n1", 7, "closed", <<>>, "d2"),               \* same id, other number
      Without(Pull(2, "n2", 2, "open", <<>>, None), "head") }

Items(e) ==
    CASE e = "contributors" -> ContributorItems
      [] e = "commits" -> CommitItems
      [] e = "issues" -> IssueItems
      [] e = "pulls" -> PullItems

\* a key of an error body, met where a record is expected
Junk(key) == [junk |-> key]
ErrorKeys == <<"message", "documentation_url">>

---------------------------------------------------------------------------
(* get_rate_limit / extract: pure parts *)

\* variant: the branch is taken whatever the count
RateLimitOkMut(n) == n >= 0

\* `if get_rate_limit(headers):` -- truthiness of the returned integer
RateLimitOk(n) == n # 0

\* variant: the link is looked up where it never is
HasNextMut(r) == FALSE

\* `'next' in res.links.keys()`
HasNext(r) == r.next

Unset == [kind |-> "unset", items |-> <<>>]
NoResult == [kind |-> "none", items |-> <<>>]
NoRes == [kind |-> "unset", body |-> <<>>, next |-> FALSE]

\* res.json() of a response whose body parsed
BodyOf(r) == [kind |-> r.kind, items |-> r.body]

\* variant of extend: the page replaces what was accumulated
ExtendMut(acc, r) == IF r.kind = "list" THEN r.body ELSE acc

\* json_data.extend(res.json()) on a list: a list body is appended in order,
\* a dict body contributes its keys
Extend(acc, r) ==
    IF r.kind = "list" THEN acc \o r.body
    ELSE acc \o [i \in 1..Len(ErrorKeys) |-> Junk(ErrorKeys[i])]

SeqsUpTo(S, n) == UNION {[1..m -> S] : m \in 0..n}

\* What the server may answer to a data request for endpoint e, given the
\* pages it already delivered in this call and the quota left.
\*   list    a page of records; it links to a next page only when non-empty
\*   dict    an error object (403 rate limit exceeded, 404, ...), no links
\*   neterr  requests.get raises
\*   badjson the body is not JSON: res.json() raises
Responses(e, delivered, quota) ==
    { [kind |-> "list", body |-> b, next |-> n] :
        b \in IF quota > 0
              THEN SeqsUpTo(Items(e), MaxRecords - Len(Flatten(delivered)))
              ELSE {},
        n \in BOOLEAN }
    \cup { [kind |-> c, body |-> <<>>, next |-> FALSE] :
              c \in {"dict", "neterr", "badjson"} }

\* a page links on only if it is non-empty and the server has pages left
Served(r, delivered) ==
    r.kind = "list" /\ r.next =>
        /\ r.body # <<>>
        /\ Len(delivered) + 1 < MaxPages
        /\ Len(Flatten(delivered)) + Len(r.body) < MaxRecords

\* a data request consumes one unit of quota, a rate-limit query none
Consume(q) == IF q > 0 THEN q - 1 ELSE 0

---------------------------------------------------------------------------
(* main: json.dumps / json.loads *)

\* json.dumps(x): None gives 'null', a list '[...]', a dict '{...}'
Dumps(v) ==
    [str |-> IF v.kind = "none" THEN "null"
             ELSE IF v.kind = "dict" THEN "{..}"
             ELSE IF v.items = <<>> THEN "[]" ELSE "[..]",
     doc |-> v]

\* json.loads(s)
Loads(t) == t.doc

\* truthiness of a str: non-empty
Truthy(t) == t.str # ""

NoText == [str |-> "", doc |-> Unset]

\* `for item in obj`: a list yields its elements, a dict its keys; None is
\* not iterable
Iterable(v) == v.kind \in {"list", "dict"}
Iter(v) ==
    IF v.kind = "dict" THEN [i \in 1..Len(ErrorKeys) |-> Junk(ErrorKeys[i])]
    ELSE v.items

---------------------------------------------------------------------------
(* transform_load: the record mapping *)

IsDict(item) == "junk" \notin DOMAIN item

\* variant: a missing login becomes the empty string
LoginOrNoneMut(o) == IF o # NoneObj THEN o.login ELSE ""

\* `x['login'] if x else None`
LoginOrNone(o) == IF o # NoneObj THEN o.login ELSE None

RequiredKeys(e) ==
    CASE e = "contributors" -> {"id", "node_id", "login", "contributions"}
      [] e = "commits" -> {"sha", "commit", "parents", "node_id", "author", "committer"}
      [] e = "issues" -> {"id", "node_id", "number", "state", "title", "body",
                          "assignees", "labels", "comments", "user", "created_at",
                          "updated_at", "closed_at"}
      [] e = "pulls" -> {"id", "node_id", "number", "state", "title", "body",
                         "assignees", "requested_reviewers", "labels", "user",
                         "created_at", "updated_at", "closed_at", "merged_at",
                         "merge_commit_sha", "head", "base"}

\* building data_dict raises (TypeError on a non-dict item, KeyError on an
\* absent key) unless every subscripted key is there
MapOk(e, item) == IsDict(item) /\ RequiredKeys(e) \subseteq DOMAIN item

Logins(l) == [i \in 1..Len(l) |-> l[i].login]
Names(l) == [i \in 1..Len(l) |-> l[i].name]
Shas(l) == [i \in 1..Len(l) |-> l[i].sha]

MapItem(e, item) ==
    CASE e = "contributors" ->
           [id |-> item.id, node_id |-> item.node_id, login |-> item.login,
            contributions |-> item.contributions]
      [] e = "commits" ->
           [sha |-> item.sha, tree_sha |-> item.commit.tree.sha,
            parents_sha |-> Join(Shas(item.parents)), node_id |-> item.node_id,
            author |-> LoginOrNone(item.author),
            date_authored |-> item.commit.author.date,
            committer |-> LoginOrNone(item.committer),
            date_committed |-> item.commit.committer.date,
            message |-> item.commit.message,
            comments |-> item.commit.comment_count]
      [] e = "issues" ->
           [id |-> item.id, node_id |-> item.node_id, number |-> item.number,
            state |-> item.state, title |-> item.title, body |-> item.body,
            assignees |-> Join(Logins(item.assignees)),
            labels |-> Join(Names(item.labels)), comments |-> item.comments,
            created_by |-> item.user.login, date_created |-> item.created_at,
            date_updated |-> item.updated_at, date_closed |-> item.closed_at]
      [] e = "pulls" ->
           [id |-> item.id, node_id |-> item.node_id, number |-> item.number,
            state |-> item.state, title |-> item.title, body |-> item.body,
            assignees |-> Join(Logins(item.assignees)),
            reviewers |-> Join(Logins(item.requested_reviewers)),
            labels |-> Join(Names(item.labels)),
            created_by |-> item.user.login, date_created |-> item.created_at,
            date_updated |-> item.updated_at, date_closed |-> item.closed_at,
            date_merged |-> item.merged_at, merge_sha |-> item.merge_commit_sha,
            head_sha |-> item.head.sha, base_sha |-> item.base.sha]

\* list(data_dict.keys())
Keys(d) == DOMAIN d

\* `values = [data_dict[col] for col in columns]` bound to `columns`
RowOf(cols, d) == [c \in cols |-> d[c]]

---------------------------------------------------------------------------
(* transform_load: the store *)

\* variant: the key is declared on node_id
PrimaryKeyMut(e) == "node_id"

\* the column declared PRIMARY KEY in the CREATE TABLE of the endpoint
PrimaryKey(e) == IF e = "commits" THEN "sha" ELSE "id"

\* the text columns declared NOT NULL (the integer columns hold numbers in
\* every record served)
NotNull(e) ==
    CASE e = "contributors" -> {"node_id", "login"}
      [] e = "commits" -> {"tree_sha", "node_id", "date_authored",
                           "date_committed", "message"}
      [] e = "issues" -> {"node_id", "state", "title", "created_by",
                          "date_created", "date_updated"}
      [] e = "pulls" -> {"node_id", "state", "title", "created_by",
                         "date_created", "date_updated", "head_sha", "base_sha"}

\* variant: no uniqueness is enforced
ConflictMut(table, e, row) == FALSE

Conflict(table, e, row) ==
    \E i \in 1..Len(table) : table[i][PrimaryKey(e)] = row[PrimaryKey(e)]

NullViolation(e, row) == \E c \in NotNull(e) : row[c] = None

\* variant: INSERT OR REPLACE
InsertOrReplace(table, e, row) ==
    IF \E c \in {"node_id"} : row[c] = None THEN table
    ELSE LET key == IF e = "commits" THEN "sha" ELSE "id"
             kept == SelectSeq(table, LAMBDA r : r[key] # row[key])
         IN  Append(kept, row)

\* INSERT OR IGNORE: the row is skipped on a constraint violation
InsertOrIgnore(table, e, row) ==
    IF Conflict(table, e, row) \/ NullViolation(e, row)
    THEN table
    ELSE Append(table, row)

\* variant: the commit is left out
CommittedMut(w, d) == d

\* conn.commit(): the database file takes the connection's view
Committed(w, d) == w

EmptyStore == [e \in EndpointSet |-> <<>>]
Main == [who |-> "main"]
NoRow == [none |-> TRUE]

---------------------------------------------------------------------------
(* Initial state: the script is started on a new database file *)

E == Endpoints[ep]
Batch == Iter(Loads(text))

ExtractLocals0 ==
    /\ res = NoRes /\ json_data = Unset /\ sent = <<>> /\ failure = "no"
    /\ dataReqs = 0 /\ rlReqs = 0

LoadLocals0 ==
    /\ text = NoText /\ k = 0 /\ data_dict = NoRow /\ columns = {}
    /\ nCommits = 0 /\ startTab = <<>>

Init ==
    /\ status = "running" /\ pc = "x_pre" /\ ep = 1
    /\ remaining = 0
    /\ ExtractLocals0 /\ LoadLocals0
    /\ work = EmptyStore /\ durable = EmptyStore /\ created = {}
    /\ caller = Main

UnchangedExtract == UNCHANGED <<res, json_data, sent, failure, dataReqs, rlReqs>>
UnchangedLoad == UNCHANGED <<text, k, data_dict, columns, nCommits, startTab>>
UnchangedStore == UNCHANGED <<work, durable, created, caller>>

\* An exception nobody catches ends the process: its variables are gone,
\* and what the connection had not committed is lost with it.  Only the
\* database file and the observation of the failed fetch outlive it.
Ended(how) ==
    /\ status' = how
    /\ pc' = "end" /\ ep' = 1 /\ remaining' = 0
    /\ res' = NoRes /\ json_data' = Unset /\ sent' = <<>>
    /\ dataReqs' = 0 /\ rlReqs' = 0
    /\ text' = NoText /\ k' = 0 /\ data_dict' = NoRow /\ columns' = {}
    /\ nCommits' = 0 /\ startTab' = <<>>
    /\ work' = durable
    /\ UNCHANGED <<durable, created, caller>>

Raise(what) == Ended("raised") /\ failure' = what

---------------------------------------------------------------------------
(* extract *)

\* lines 64-67 and 94-96: the pre-fetch get_rate_limit and the branch on it
RateLimitPre ==
    /\ status = "running" /\ pc = "x_pre"
    /\ \E answered \in BOOLEAN, quota \in 0..MaxQuota :
         IF ~answered
         THEN Raise("query")
         ELSE /\ remaining' = quota
              /\ rlReqs' = rlReqs + 1
              /\ IF RateLimitOk(quota)
                 THEN pc' = "x_first" /\ UNCHANGED json_data
                 ELSE pc' = "m_dumps" /\ json_data' = NoResult
              /\ UNCHANGED <<status, ep, res, sent, failure, dataReqs>>
              /\ UnchangedLoad /\ UnchangedStore

\* lines 72-78: the first page, outside any try
FirstPage ==
    /\ status = "running" /\ pc = "x_first"
    /\ \E r \in Responses(E, sent, remaining) :
         /\ Served(r, sent)
         /\ IF r.kind \in {"neterr", "badjson"}
            THEN Raise(r.kind)
            ELSE /\ res' = r
                 /\ json_data' = BodyOf(r)
                 /\ sent' = IF r.kind = "list" THEN Append(sent, r) ELSE sent
                 /\ failure' = IF r.kind = "list" THEN "no" ELSE r.kind
                 /\ dataReqs' = dataReqs + 1
                 /\ remaining' = Consume(remaining)
                 /\ pc' = "x_loop"
                 /\ UNCHANGED <<status, ep, rlReqs>>
                 /\ UnchangedLoad /\ UnchangedStore

\* lines 79-87: one turn of the pagination loop
NextPage ==
    /\ status = "running" /\ pc = "x_loop"
    /\ HasNext(res)
    /\ dataReqs' = dataReqs + 1
    /\ remaining' = Consume(remaining)
    /\ UNCHANGED <<rlReqs, status, ep>>
    /\ UnchangedLoad /\ UnchangedStore
    /\ \E r \in Responses(E, sent, remaining) :
         /\ Served(r, sent)
         /\ IF r.kind \in {"neterr", "badjson"} \/ json_data.kind # "list"
            THEN \* except: return None
                 /\ failure' = IF r.kind = "list" THEN failure ELSE r.kind
                 /\ json_data' = NoResult
                 /\ pc' = "m_dumps"
                 /\ UNCHANGED <<res, sent>>
            ELSE /\ res' = r
                 /\ json_data' = [json_data EXCEPT !.items = Extend(@, r)]
                 /\ sent' = IF r.kind = "list" THEN Append(sent, r) ELSE sent
                 /\ failure' = IF r.kind = "list" THEN failure ELSE r.kind
                 /\ pc' = "x_loop"

\* lines 89-92: no 'next' link: the post-fetch get_rate_limit and the return
RateLimitPost ==
    /\ status = "running" /\ pc = "x_loop"
    /\ ~HasNext(res)
    /\ \E answered \in BOOLEAN :
         IF ~answered
         THEN Raise("query")
         ELSE /\ rlReqs' = rlReqs + 1
              /\ pc' = "m_dumps"
              /\ UNCHANGED <<status, ep, remaining, res, json_data, sent,
                             failure, dataReqs>>
              /\ UnchangedLoad /\ UnchangedStore

---------------------------------------------------------------------------
(* main *)

\* lines 283-284 (287-288, 291-292, 295-296): json.dumps of extract's
\* result, then transform_load if the string is truthy, else sys.exit().
\* The test is on the dumped string, and Dumps never gives the empty string.
MainBranch ==
    /\ status = "running" /\ pc = "m_dumps"
    /\ IF Truthy(Dumps(json_data))
       THEN /\ text' = Dumps(json_data)
            /\ pc' = "t_create"
            /\ res' = NoRes /\ json_data' = Unset /\ sent' = <<>>
            /\ failure' = "no" /\ dataReqs' = 0 /\ rlReqs' = 0
            /\ remaining' = 0
            /\ UNCHANGED <<status, ep, k, data_dict, columns, nCommits, startTab>>
            /\ UnchangedStore
       ELSE Ended("exited") /\ UNCHANGED failure

\* transform_load returned: main calls extract for the next endpoint
NextEndpoint ==
    /\ status = "running" /\ pc = "t_iter"
    /\ Iterable(Loads(text)) /\ k > Len(Batch)
    /\ ep < Len(Endpoints)
    /\ ep' = ep + 1 /\ pc' = "x_pre"
    /\ text' = NoText /\ k' = 0 /\ data_dict' = NoRow /\ columns' = {}
    /\ nCommits' = 0 /\ startTab' = <<>>
    /\ UNCHANGED <<status, remaining>>
    /\ UnchangedExtract /\ UnchangedStore

\* line 299: after the last endpoint, conn.close()
Close ==
    /\ status = "running" /\ pc = "t_iter"
    /\ Iterable(Loads(text)) /\ k > Len(Batch)
    /\ ep = Len(Endpoints)
    /\ Ended("closed")
    /\ UNCHANGED failure

---------------------------------------------------------------------------
(* transform_load *)

\* lines 109-187: CREATE TABLE IF NOT EXISTS for the endpoint; columns = None
CreateTable ==
    /\ status = "running" /\ pc = "t_create"
    /\ \E stored \in BOOLEAN :
         IF ~stored
         THEN Raise("store")
         ELSE /\ created' = created \cup {E}
              /\ columns' = {} /\ k' = 1 /\ pc' = "t_iter"
              /\ startTab' = durable[E] /\ nCommits' = 0
              /\ UNCHANGED <<status, ep, remaining, text, data_dict, work, durable, caller>>
              /\ UnchangedExtract

\* lines 188-258: the loop takes the next item and builds data_dict
MapRecord ==
    /\ status = "running" /\ pc = "t_iter"
    /\ Iterable(Loads(text)) => k <= Len(Batch)
    /\ IF Iterable(Loads(text)) /\ MapOk(E, Batch[k])
       THEN /\ data_dict' = MapItem(E, Batch[k])
            /\ columns' = IF columns = {} THEN Keys(data_dict') ELSE columns
            /\ pc' = "t_insert"
            /\ UNCHANGED <<status, ep, remaining, text, k, nCommits, startTab>>
            /\ UnchangedExtract /\ UnchangedStore
       ELSE Raise("mapping")

\* lines 261-265: INSERT OR IGNORE of the mapped row
InsertRow ==
    /\ status = "running" /\ pc = "t_insert"
    /\ \E stored \in BOOLEAN :
         IF ~stored
         THEN Raise("store")
         ELSE /\ work' = [work EXCEPT ![E] = InsertOrIgnore(@, E, RowOf(columns, data_dict))]
              /\ pc' = "t_commit"
              /\ UNCHANGED <<status, ep, remaining, durable, created, caller>>
              /\ UnchangedExtract /\ UnchangedLoad

\* line 268: conn.commit()
CommitRow ==
    /\ status = "running" /\ pc = "t_commit"
    /\ \E stored \in BOOLEAN :
         IF ~stored
         THEN Raise("store")
         ELSE /\ durable' = Committed(work, durable)
              /\ nCommits' = nCommits + 1
              /\ k' = k + 1 /\ pc' = "t_iter"
              /\ data_dict' = NoRow
              /\ UNCHANGED <<status, ep, remaining, text, columns, startTab,
                             work, created, caller>>
              /\ UnchangedExtract

---------------------------------------------------------------------------

Next ==
    \/ RateLimitPre \/ FirstPage \/ NextPage \/ RateLimitPost
    \/ MainBranch \/ NextEndpoint \/ Close
    \/ CreateTable \/ MapRecord \/ InsertRow \/ CommitRow

Spec == Init /\ [][Next]_vars

---------------------------------------------------------------------------
(* Repeated loads: transform_load called again and again on one database   *)
(* file, as successive executions of the script do, each call with an      *)
(* endpoint and a batch of raw records of that endpoint.                    *)

Batches(e) == {Dumps([kind |-> "list", items |-> b]) : b \in SeqsUpTo(Items(e), MaxRecords)}

\* transform_load returned, or the process died in it
LoadEnded ==
    \/ status = "raised"
    \/ status = "running" /\ pc = "t_iter" /\ k > Len(Batch)

InitLoad ==
    /\ status = "running" /\ pc = "t_create"
    /\ ep \in 1..Len(Endpoints)
    /\ text \in Batches(Endpoints[ep])
    /\ remaining = 0 /\ ExtractLocals0
    /\ k = 0 /\ data_dict = NoRow /\ columns = {} /\ nCommits = 0 /\ startTab = <<>>
    /\ work = EmptyStore /\ durable = EmptyStore /\ created = {}
    /\ caller = [who |-> "driver", loads |-> 1, ep |-> ep, text |-> text,
                 again |-> FALSE, snap |-> <<>>]

StartLoad(e, t) ==
    /\ status' = "running" /\ pc' = "t_create" /\ ep' = e /\ text' = t
    /\ k' = 0 /\ data_dict' = NoRow /\ columns' = {} /\ nCommits' = 0
    /\ startTab' = <<>> /\ failure' = "no"
    /\ work' = durable
    /\ UNCHANGED <<remaining, res, json_data, sent, dataReqs, rlReqs, durable, created>>

\* the same endpoint and batch are loaded once more, after a load that no
\* store failure cut short
Again ==
    /\ LoadEnded /\ failure # "store"
    /\ caller.loads < MaxLoads
    /\ StartLoad(caller.ep, caller.text)
    /\ caller' = [caller EXCEPT !.loads = @ + 1, !.again = TRUE,
                                !.snap = durable[Endpoints[caller.ep]]]

\* another endpoint and batch are loaded
Another ==
    /\ LoadEnded
    /\ caller.loads < MaxLoads
    /\ \E e \in 1..Len(Endpoints) : \E t \in Batches(Endpoints[e]) :
         /\ StartLoad(e, t)
         /\ caller' = [caller EXCEPT !.loads = @ + 1, !.ep = e, !.text = t,
                                     !.again = FALSE, !.snap = <<>>]

NextLoad == CreateTable \/ MapRecord \/ InsertRow \/ CommitRow \/ Again \/ Another

SpecLoad == InitLoad /\ [][NextLoad]_vars

---------------------------------------------------------------------------
(* Properties of main and extract, checked under Spec *)

FailedResult(v) == v.kind = "none" \/ (v.kind = "list" /\ v.items = <<>>)

\* C1: when extract yields None or an empty result for an endpoint, the run
\* aborts at once: main's next step ends the process, with no table created
\* and nothing inserted for that endpoint, and no later endpoint is begun.
C1_FailedExtractionAborts ==
    [][ (status = "running" /\ pc = "m_dumps" /\ FailedResult(json_data))
          => /\ status' = "exited"
             /\ created' = created
             /\ durable' = durable ]_vars

\* C2: when the pre-fetch rate-limit query reports zero remaining, extract
\* returns None having issued no data request: the rate-limit query is the
\* only request of the call.
C2_ZeroQuotaShortCircuit ==
    [][ (status = "running" /\ pc = "x_pre" /\ status' = "running" /\ remaining' = 0)
          => /\ pc' = "m_dumps"
             /\ json_data' = NoResult
             /\ dataReqs' = 0 /\ rlReqs' = 1
             /\ sent' = <<>> ]_vars

C2_Witness ==
    /\ status = "running" /\ pc = "m_dumps" /\ E = "issues"
    /\ remaining = 0 /\ json_data = NoResult /\ dataReqs = 0 /\ rlReqs = 1

\* C3: when the fetch of any page, the first included, fails (network error,
\* error object in place of a page, body that is not JSON), extract does not
\* raise and what it returns is None.
C3_FailedFetchGivesNoResult ==
    failure \in {"neterr", "badjson", "dict"}
        => /\ status # "raised"
           /\ pc = "m_dumps" => json_data = NoResult

\* C4: when the pre-check passes and every request of the call succeeds, the
\* server's chain of pages being 1..N, extract returns the records of pages
\* 1..N concatenated in page order, having stopped at the first page without
\* a 'next' link.
C4_PagesConcatenated ==
    (status = "running" /\ pc = "m_dumps" /\ failure = "no" /\ rlReqs = 2)
        => /\ Len(sent) >= 1
           /\ json_data = [kind |-> "list", items |-> Flatten(sent)]
           /\ \A i \in 1..Len(sent) : sent[i].next <=> i < Len(sent)
           /\ dataReqs = Len(sent)

C4_Witness ==
    /\ status = "running" /\ pc = "m_dumps" /\ failure = "no" /\ rlReqs = 2
    /\ Len(sent) = 2
    /\ sent[1].body # sent[2].body
    /\ json_data.items = sent[1].body \o sent[2].body

\* C10: the quota is consulted once before the first data request and once
\* after the last page, never between pages: while a 'next' link is pending
\* the next step is a data request whatever quota is left, and a successful
\* extraction of N pages has issued N data requests and 2 rate-limit queries.
C10_QuotaCheckedOnlyAtEnds ==
    [][ /\ (status = "running" /\ pc = "x_loop" /\ res.next)
            => (dataReqs' = dataReqs + 1 /\ rlReqs' = rlReqs)
        /\ (status' = "running" /\ pc' \in {"x_first", "x_loop"})
            => rlReqs' = 1
        /\ (status' = "running" /\ pc' = "m_dumps" /\ failure' = "no"
               /\ json_data'.kind = "list")
            => (rlReqs' = 2 /\ dataReqs' = Len(sent')) ]_vars

\* a next page is pending with the quota used up after the pre-check passed
C10_Witness ==
    /\ status = "running" /\ pc = "x_loop" /\ res.next
    /\ remaining = 0 /\ rlReqs = 1 /\ dataReqs = 1

---------------------------------------------------------------------------
(* Properties of transform_load, checked under SpecLoad *)

Loading == status = "running" /\ pc \in {"t_iter", "t_insert", "t_commit"}
InsertStep == status = "running" /\ pc = "t_insert" /\ pc' = "t_commit"
CallerTable == durable[Endpoints[caller.ep]]

\* C5: loading the same batch a second time leaves the endpoint's table as
\* the first load left it, row for row: all through the repeated load, and
\* at its end, the table equals its content after the first load.
C5_ReloadIdempotent ==
    (caller.who = "driver" /\ caller.again)
        => /\ CallerTable = caller.snap
           /\ work[Endpoints[caller.ep]] = caller.snap

C5_Witness ==
    /\ caller.who = "driver" /\ caller.again
    /\ status = "running" /\ pc = "t_iter" /\ k > Len(Batch)
    /\ nCommits = 2 /\ Len(caller.snap) = 2 /\ CallerTable = caller.snap

\* the primary key as the data model of the specification states it
FullKey(e) ==
    CASE e = "contributors" -> {"id", "node_id", "login"}
      [] e = "commits" -> {"sha", "node_id"}
      [] e = "issues" -> {"id", "node_id", "number"}
      [] e = "pulls" -> {"id", "node_id", "number"}

\* the primary key as the CREATE TABLE statements declare it
KeyColumn(e) == IF e \in {"contributors", "issues", "pulls"} THEN "id" ELSE "sha"

NoNulls(e, row) == \A c \in NotNull(e) : row[c] # None

RECURSIVE LoadPrefix(_, _, _, _)
\* the table after rows 1..n of the batch went through INSERT OR IGNORE
LoadPrefix(table, e, batch, n) ==
    IF n = 0 THEN table
    ELSE InsertOrIgnore(LoadPrefix(table, e, batch, n - 1), e, MapItem(e, batch[n]))

\* C7: when row k is mapped, and when its insert is attempted, rows 1..k-1
\* have gone through their insert and are committed, one commit per row;
\* when the mapping, the insert or the commit of row k fails, the process
\* ends with exactly the effect of rows 1..k-1 in the database file.
C7_CommitPerRow ==
    [][ /\ (status' = "running" /\ pc' \in {"t_iter", "t_insert"})
            => /\ nCommits' = k' - 1
               /\ durable'[E'] = LoadPrefix(startTab', E', Iter(Loads(text')), k' - 1)
               /\ work'[E'] = durable'[E']
        /\ (Loading /\ status' = "raised")
            => /\ durable'[E] = LoadPrefix(startTab, E, Batch, k - 1)
               /\ work' = durable' ]_vars

\* the first load into the new file died mapping the second of two rows,
\* and the first row is in the file
C7_Witness ==
    /\ caller.who = "driver" /\ caller.loads = 1
    /\ status = "raised" /\ failure = "mapping"
    /\ Len(Iter(Loads(caller.text))) = 2
    /\ Len(CallerTable) = 1

AuthorNull(item) == "author" \in DOMAIN item /\ item.author = NoneObj
AuthorAbsent(item) == "author" \notin DOMAIN item
CommitterNull(item) == "committer" \in DOMAIN item /\ item.committer = NoneObj
MapStep == status = "running" /\ pc = "t_iter" /\ k <= Len(Batch) /\ E = "commits"

IsPrefix(a, b) == Len(a) <= Len(b) /\ SubSeq(b, 1, Len(a)) = a

\* C9: no step updates or deletes a stored row: every table of the database
\* file only ever grows at its end, rows already stored keeping their
\* values, and a load for endpoint E changes no table but E's.
C9_StoredRowsKept ==
    [][ /\ \A e \in EndpointSet : IsPrefix(durable[e], durable'[e])
        /\ \A e \in EndpointSet : durable'[e] # durable[e] => (Loading /\ e = E)
        /\ created \subseteq created' ]_vars

\* a later load brought contributor 1 with other values; the stored row stands
C9_Witness ==
    /\ caller.who = "driver" /\ caller.loads = 2
    /\ status = "running" /\ pc = "t_iter" /\ k = 2 /\ E = "contributors"
    /\ MapItem(E, Batch[1]) = Contributor(1, "n1", "u2", 2)
    /\ durable[E] = <<Contributor(1, "n1", "u1", 1)>>

============================================================================
